---------------------------- MODULE Spec2Model ----------------------------
(***************************************************************************)
(* A model of the PriorityQueue class of src/src/index.ts: a binary heap   *)
(* kept in an array (#heap), ordered by a comparison function (#compare)   *)
(* that is one of the two static functions #minCompare and #maxCompare.    *)
(*                                                                         *)
(* Array indices are the code's indices, 0 .. length-1; the sequence that  *)
(* holds the array is read and written through At and Put.                 *)
(***************************************************************************)
EXTENDS Integers, Sequences, FiniteSets, Bags, TLC

(***************************************************************************)
(* Bounds of the model.                                                    *)
(***************************************************************************)
\* the longest backing array the model builds
MaxSize == 5
\* priorities are drawn from -1 .. MaxPrio: negative, zero and positive
MaxPrio == 1
\* the longest array loaded in SpecLoad
MaxLoad == 7
\* the most enqueue calls counted between two full drains in SpecCount
MaxEnqueues == 6
\* the largest number of entries in the queue in SpecPull, SpecGenLoad and
\* SpecIter
MaxPull == 3

\* the largest number of entries in the queue in SpecIterLive
MaxLive == 2

\* the largest number of entries in the queue in SpecTies
MaxTies == 4

(***************************************************************************)
(* Values and entries.                                                     *)
(***************************************************************************)
\* JavaScript's undefined: the result of dequeue() and peek() on an empty
\* queue, and also a value the caller may store
UNDEFINED == "undefined"

\* the values a caller enqueues
Values == {"a", UNDEFINED}

Priorities == (-1) .. MaxPrio

\* type QueueElement<T> = { value: T; priority: number }
QueueElement == [value : Values, priority : Priorities]

\* the two comparison functions #compare can hold
CompareFns == {"minCompare", "maxCompare"}

VARIABLES
    heap,        \* #heap: the backing array
    compare,     \* #compare: "minCompare" or "maxCompare"
    op,          \* the public operation that completed last
    arg,         \* its arguments: the entry (enqueue), isMinHeap (new), or <<>>
    ret,         \* what it returned (a value, UNDEFINED, a sequence of values)
    done,        \* the done flag of the result of a generator's next()
    preHeap,     \* #heap when that operation was called
    preCompare,  \* #compare when that operation was called
    drainGen,    \* the generator made by drain(): "none", "suspended", "closed"
    iterGen,     \* the generator made by [Symbol.iterator](): "none",
                 \* "start" (body not entered), "running", "closed"
    clone,       \* clone.#heap of the running iterator
    cloneCompare,\* clone.#compare of the running iterator
    iterSnap,    \* #heap as it was when the iterator took its copy
    iterOut,     \* the entries whose values the iterator has yielded
    enqueues,    \* the enqueue calls counted (SpecCount)
    dequeues,    \* the dequeue calls on a non-empty queue counted (SpecCount)
    preDrainGen, \* drainGen when the last operation was called
    drainSnap,   \* #heap when drain() made the generator
    drainOut,    \* the entries whose values the drain() generator has yielded
    drainTaken,  \* the entries its next() calls have taken out of #heap
    drainPulls,  \* the next() calls made on it
    iter2        \* a second generator made by [Symbol.iterator](): its state
                 \* (gen), its clone (clone, cloneCompare), and snap and out,
                 \* which are to it what iterSnap and iterOut are to the first

queueVars == <<heap, compare, op, arg, ret, done, preHeap, preCompare>>

drainVars == <<drainGen>>

iterVars == <<iterGen, clone, cloneCompare, iterSnap, iterOut>>

countVars == <<enqueues, dequeues>>

preVars == <<preDrainGen>>

logVars == <<drainSnap, drainOut, drainTaken, drainPulls>>

iter2Vars == <<iter2>>

vars == <<queueVars, drainVars, iterVars, countVars, preVars, logVars,
          iter2Vars>>

(***************************************************************************)
(* Array access with the code's 0-based indices.                           *)
(***************************************************************************)
At(h, i) == h[i + 1]

Put(h, i, e) == [h EXCEPT ![i + 1] = e]

\* Array.prototype.pop: the array without its last element
Pop(h) == SubSeq(h, 1, Len(h) - 1)

(***************************************************************************)
(* The comparison functions.                                               *)
(***************************************************************************)
minCompare(a, b) == a.priority - b.priority

maxCompare(a, b) == b.priority - a.priority

\* a call of the function held in #compare
Compare(cmp, a, b) ==
    IF cmp = "minCompare" THEN minCompare(a, b) ELSE maxCompare(a, b)

\* #bubbleUp stopping on compare(element, parent) > 0: the element moves
\* above a parent it ties with
RECURSIVE bubbleUpLoop_overTies(_, _, _, _)
bubbleUpLoop_overTies(h, index, element, cmp) ==
    IF index > 0
    THEN LET parentIndex == (index - 1) \div 2
             parent == At(h, parentIndex)
         IN  IF Compare(cmp, element, parent) > 0
             THEN Put(h, index, element)
             ELSE bubbleUpLoop_overTies(Put(h, index, parent), parentIndex,
                                        element, cmp)
    ELSE Put(h, index, element)

(***************************************************************************)
(* #bubbleUp: the last element moves up while it compares < 0 against its  *)
(* parent; the parents passed are shifted down one level.                  *)
(***************************************************************************)
RECURSIVE bubbleUpLoop(_, _, _, _)
bubbleUpLoop(h, index, element, cmp) ==
    IF index > 0
    THEN LET parentIndex == (index - 1) \div 2
             parent == At(h, parentIndex)
         IN  IF Compare(cmp, element, parent) >= 0
             THEN Put(h, index, element)
             ELSE bubbleUpLoop(Put(h, index, parent), parentIndex, element, cmp)
    ELSE Put(h, index, element)

bubbleUp(h, cmp) ==
    LET index == Len(h) - 1
    IN  bubbleUpLoop(h, index, At(h, index), cmp)

(***************************************************************************)
(* #bubbleDown(startIndex): the element at startIndex moves down below the *)
(* child chosen by the two comparisons against the swap target.            *)
(***************************************************************************)
\* the index the loop body chooses: index itself, or a child
swapTarget(h, index, cmp) ==
    LET length == Len(h)
        leftChildIndex == 2 * index + 1
        rightChildIndex == 2 * index + 2
        afterLeft ==
            IF leftChildIndex < length
               /\ Compare(cmp, At(h, leftChildIndex), At(h, index)) < 0
            THEN leftChildIndex
            ELSE index
    IN  IF rightChildIndex < length
           /\ Compare(cmp, At(h, rightChildIndex), At(h, afterLeft)) < 0
        THEN rightChildIndex
        ELSE afterLeft

RECURSIVE bubbleDownLoop(_, _, _, _)
bubbleDownLoop(h, index, element, cmp) ==
    LET swapTargetIndex == swapTarget(h, index, cmp)
    IN  IF swapTargetIndex = index
        THEN Put(h, index, element)
        ELSE bubbleDownLoop(Put(h, index, At(h, swapTargetIndex)),
                            swapTargetIndex, element, cmp)

bubbleDown(h, startIndex, cmp) ==
    IF startIndex >= Len(h)
    THEN h
    ELSE bubbleDownLoop(h, startIndex, At(h, startIndex), cmp)

(***************************************************************************)
(* #reheapify: bubbleDown(i) for i from floor(length / 2) - 1 down to 0.   *)
(***************************************************************************)
RECURSIVE reheapifyLoop(_, _, _)
reheapifyLoop(h, i, cmp) ==
    IF i >= 0
    THEN reheapifyLoop(bubbleDown(h, i, cmp), i - 1, cmp)
    ELSE h

reheapify(h, cmp) ==
    LET lastNonLeafIndex == (Len(h) \div 2) - 1
    IN  reheapifyLoop(h, lastNonLeafIndex, cmp)

(***************************************************************************)
(* The work of the private methods, counted: the levels the element of     *)
(* #bubbleUp and of #bubbleDown moves by (the executions of index =        *)
(* parentIndex and of index = swapTargetIndex), and the calls of           *)
(* #bubbleDown that #reheapify makes, as the sequence of their arguments.  *)
(***************************************************************************)
RECURSIVE bubbleUpMoves(_, _, _, _)
bubbleUpMoves(h, index, element, cmp) ==
    IF index > 0
    THEN LET parentIndex == (index - 1) \div 2
             parent == At(h, parentIndex)
         IN  IF Compare(cmp, element, parent) >= 0
             THEN 0
             ELSE 1 + bubbleUpMoves(Put(h, index, parent), parentIndex,
                                    element, cmp)
    ELSE 0

RECURSIVE bubbleDownMoves(_, _, _)
bubbleDownMoves(h, index, cmp) ==
    LET swapTargetIndex == swapTarget(h, index, cmp)
    IN  IF index >= Len(h) \/ swapTargetIndex = index
        THEN 0
        ELSE 1 + bubbleDownMoves(Put(h, index, At(h, swapTargetIndex)),
                                 swapTargetIndex, cmp)

RECURSIVE reheapifyCallsFrom(_)
reheapifyCallsFrom(i) ==
    IF i >= 0 THEN <<i>> \o reheapifyCallsFrom(i - 1) ELSE <<>>

reheapifyCalls(h) ==
    LET lastNonLeafIndex == (Len(h) \div 2) - 1
    IN  reheapifyCallsFrom(lastNonLeafIndex)

(***************************************************************************)
(* The public operations as functions of (#heap, #compare).                *)
(***************************************************************************)
isEmpty(h) == Len(h) = 0

size(h) == Len(h)

\* enqueue() keeping one entry for a (value, priority) pair already stored
enqueue_dedup(h, cmp, value, priority) ==
    IF \E i \in DOMAIN h : h[i] = [value |-> value, priority |-> priority]
    THEN h
    ELSE bubbleUp(Append(h, [value |-> value, priority |-> priority]), cmp)

\* enqueue(value, priority): push, then #bubbleUp
enqueue(h, cmp, value, priority) ==
    bubbleUp(Append(h, [value |-> value, priority |-> priority]), cmp)

\* dequeue() reading the last element without pop(): nothing leaves the array
dequeue_keepLast(h, cmp) ==
    IF isEmpty(h)
    THEN [heap |-> h, value |-> UNDEFINED, removed |-> <<>>]
    ELSE [heap    |-> bubbleDown(Put(h, 0, At(h, Len(h) - 1)), 0, cmp),
          value   |-> At(h, 0).value,
          removed |-> <<At(h, 0)>>]

\* dequeue() without the isEmpty() guard: top.value on an empty array throws
dequeue_unguarded(h, cmp) ==
    IF isEmpty(h)
    THEN [heap |-> h, value |-> "TypeError", removed |-> <<>>]
    ELSE LET top == At(h, 0)
             last == At(h, Len(h) - 1)
             popped == Pop(h)
         IN  [heap    |-> IF Len(popped) > 0
                          THEN bubbleDown(Put(popped, 0, last), 0, cmp)
                          ELSE popped,
              value   |-> top.value,
              removed |-> <<top>>]

\* dequeue(): the array afterwards, the value returned, and the entries
\* taken out of the array (none on an empty queue)
dequeue(h, cmp) ==
    IF isEmpty(h)
    THEN [heap |-> h, value |-> UNDEFINED, removed |-> <<>>]
    ELSE LET top == At(h, 0)
             last == At(h, Len(h) - 1)
             popped == Pop(h)
         IN  [heap    |-> IF Len(popped) > 0
                          THEN bubbleDown(Put(popped, 0, last), 0, cmp)
                          ELSE popped,
              value   |-> top.value,
              removed |-> <<top>>]

\* peek() reading the last element of the array instead of the first
peek_last(h) == IF Len(h) = 0 THEN UNDEFINED ELSE At(h, Len(h) - 1).value

\* peek(): this.#heap[0]?.value
peek(h) == IF Len(h) = 0 THEN UNDEFINED ELSE At(h, 0).value

\* the setters without the test of the current mode: they always reheapify
setCompare_unguarded(h, cmp, target) ==
    [heap |-> reheapify(h, target), compare |-> target]

\* setMinHeap() / setMaxHeap(): what #heap and #compare become
setCompare(h, cmp, target) ==
    IF cmp # target
    THEN [heap |-> reheapify(h, target), compare |-> target]
    ELSE [heap |-> h, compare |-> cmp]

\* a sort that is not stable: each element goes before the elements it ties
\* with
RECURSIVE insertSorted_beforeTies(_, _, _)
insertSorted_beforeTies(sorted, x, cmp) ==
    IF sorted = <<>>
    THEN <<x>>
    ELSE IF Compare(cmp, x, Head(sorted)) <= 0
         THEN <<x>> \o sorted
         ELSE <<Head(sorted)>> \o insertSorted_beforeTies(Tail(sorted), x, cmp)

(***************************************************************************)
(* Array.prototype.sort(compare): a stable sort.  The result is built by   *)
(* inserting the elements in array order, each one before the first        *)
(* element it compares < 0 against, so after every element it ties with.   *)
(***************************************************************************)
RECURSIVE insertSorted(_, _, _)
insertSorted(sorted, x, cmp) ==
    IF sorted = <<>>
    THEN <<x>>
    ELSE IF Compare(cmp, x, Head(sorted)) < 0
         THEN <<x>> \o sorted
         ELSE <<Head(sorted)>> \o insertSorted(Tail(sorted), x, cmp)

RECURSIVE sortFrom(_, _, _, _)
sortFrom(h, i, sorted, cmp) ==
    IF i < Len(h)
    THEN sortFrom(h, i + 1, insertSorted(sorted, At(h, i), cmp), cmp)
    ELSE sorted

sort(h, cmp) == sortFrom(h, 0, <<>>, cmp)

\* sorted.map((item) => item.value)
mapValue(s) == [i \in 1 .. Len(s) |-> s[i].value]

\* drainFast() sorting with (a, b) => a.priority - b.priority in either mode
drainFast_ascending(h, cmp) ==
    [heap |-> <<>>, values |-> mapValue(sort(h, "minCompare"))]

\* drainFast(): the array afterwards and the array returned
drainFast(h, cmp) ==
    [heap |-> <<>>, values |-> mapValue(sort(h, cmp))]

\* the loop written as
\*   while (!q.isEmpty()) yield q.dequeue();
\* which yields the value of every entry, undefined too
yieldLoop_yieldUndefined(h, cmp, removed) ==
    IF ~isEmpty(h)
    THEN [heap |-> dequeue(h, cmp).heap, value |-> dequeue(h, cmp).value,
          done |-> FALSE, removed |-> removed \o dequeue(h, cmp).removed]
    ELSE [heap |-> h, value |-> UNDEFINED, done |-> TRUE, removed |-> removed]

\* the loop written as
\*   while ((value = q.dequeue()) !== undefined) yield value;
\* which ends at the first undefined value, entries left or not
yieldLoop_untilUndefined(h, cmp, removed) ==
    LET d == dequeue(h, cmp)
    IN  [heap |-> d.heap, value |-> d.value, done |-> d.value = UNDEFINED,
         removed |-> removed \o d.removed]

\* the loop written as
\*   do { value = q.dequeue(); if (value !== undefined) yield value; }
\*   while (!q.isEmpty());
\* over a dequeue() without the isEmpty() guard: on an empty array the first
\* pull throws
RECURSIVE yieldLoop_doWhile(_, _, _)
yieldLoop_doWhile(h, cmp, removed) ==
    LET d == dequeue_unguarded(h, cmp)
    IN  IF d.value = "TypeError"
        THEN [heap |-> h, value |-> "TypeError", done |-> TRUE,
              removed |-> removed]
        ELSE IF d.value # UNDEFINED
        THEN [heap |-> d.heap, value |-> d.value, done |-> FALSE,
              removed |-> removed \o d.removed]
        ELSE IF isEmpty(d.heap)
        THEN [heap |-> d.heap, value |-> UNDEFINED, done |-> TRUE,
              removed |-> removed \o d.removed]
        ELSE yieldLoop_doWhile(d.heap, cmp, removed \o d.removed)

(***************************************************************************)
(* One next() of the loop shared by drain() and the iterator:              *)
(*   while (!q.isEmpty()) { value = q.dequeue();                           *)
(*                          if (value !== undefined) yield value; }        *)
(* run on the array h until its next yield or its end.  removed holds the  *)
(* entries dequeued on the way, in order.                                  *)
(***************************************************************************)
RECURSIVE yieldLoop(_, _, _)
yieldLoop(h, cmp, removed) ==
    IF ~isEmpty(h)
    THEN LET d == dequeue(h, cmp)
         IN  IF d.value # UNDEFINED
             THEN [heap |-> d.heap, value |-> d.value, done |-> FALSE,
                   removed |-> removed \o d.removed]
             ELSE yieldLoop(d.heap, cmp, removed \o d.removed)
    ELSE [heap |-> h, value |-> UNDEFINED, done |-> TRUE, removed |-> removed]

\* drain() returning a hand-written iterator whose next() runs the loop on
\* every call, also after it has reported its end
drainNext_restartable(h, cmp, gen) ==
    LET r == yieldLoop(h, cmp, <<>>)
    IN  [heap |-> r.heap, gen |-> IF r.done THEN "closed" ELSE "suspended",
         value |-> r.value, done |-> r.done, removed |-> r.removed]

(***************************************************************************)
(* One next() of the generator made by drain().  gen is the generator's    *)
(* state; a closed generator runs no code.  The result holds the array     *)
(* #heap afterwards and the generator's next state.                        *)
(***************************************************************************)
drainNext(h, cmp, gen) ==
    IF gen = "closed"
    THEN [heap |-> h, gen |-> "closed", value |-> UNDEFINED, done |-> TRUE,
          removed |-> <<>>]
    ELSE LET r == yieldLoop(h, cmp, <<>>)
         IN  [heap |-> r.heap, gen |-> IF r.done THEN "closed" ELSE "suspended",
              value |-> r.value, done |-> r.done, removed |-> r.removed]

\* the iterator with clone.#heap = this.#heap, the same array and no copy
iteratorNext_shared(h, cmp, gen, c, ccmp) ==
    IF gen = "closed"
    THEN [heap |-> h, clone |-> c, cloneCompare |-> ccmp, gen |-> "closed",
          value |-> UNDEFINED, done |-> TRUE, removed |-> <<>>]
    ELSE LET cloneCmp == IF gen = "start" THEN cmp ELSE ccmp
             r == yieldLoop(h, cloneCmp, <<>>)
         IN  [heap |-> r.heap, clone |-> r.heap, cloneCompare |-> cloneCmp,
              gen |-> IF r.done THEN "closed" ELSE "running",
              value |-> r.value, done |-> r.done, removed |-> r.removed]

(***************************************************************************)
(* One next() of the generator made by [Symbol.iterator]().  The first     *)
(* next() ("start") enters the body: it builds the clone from a copy of    *)
(* #heap and from #compare, then runs the loop on the clone; later ones    *)
(* resume the loop.  The result holds #heap of the iterated queue          *)
(* afterwards, and the clone's array and comparison function.              *)
(***************************************************************************)
iteratorNext(h, cmp, gen, c, ccmp) ==
    IF gen = "closed"
    THEN [heap |-> h, clone |-> c, cloneCompare |-> ccmp, gen |-> "closed",
          value |-> UNDEFINED, done |-> TRUE, removed |-> <<>>]
    ELSE LET cloneHeap == IF gen = "start" THEN h ELSE c
             cloneCmp == IF gen = "start" THEN cmp ELSE ccmp
             r == yieldLoop(cloneHeap, cloneCmp, <<>>)
         IN  [heap |-> h, clone |-> r.heap, cloneCompare |-> cloneCmp,
              gen |-> IF r.done THEN "closed" ELSE "running",
              value |-> r.value, done |-> r.done, removed |-> r.removed]

\* what a call that throws gives its caller, in place of a result
THROWN == "throws"

(***************************************************************************)
(* return(value) and throw(exception) of a generator, the other two        *)
(* methods of what drain() and [Symbol.iterator]() return; a for...of loop *)
(* left by break, return or an exception calls return().  No yield of      *)
(* either body is inside a try statement, so the generator is closed where *)
(* it stands and no code of the body runs: return gives {value, done:      *)
(* true}, throw throws the exception it was given.  A closed generator     *)
(* answers in the same way.                                                *)
(***************************************************************************)
generatorReturn(gen, value) ==
    [gen |-> "closed", value |-> value, done |-> TRUE]

generatorThrow(gen) ==
    [gen |-> "closed", value |-> THROWN, done |-> FALSE]

(***************************************************************************)
(* The state machine: one action per public operation.                     *)
(***************************************************************************)
\* what every operation records about its call
Called(name, a, r, d) ==
    /\ op' = name
    /\ arg' = a
    /\ ret' = r
    /\ done' = d
    /\ preHeap' = heap
    /\ preCompare' = compare

\* the constructor with the default isMinHeap = false
constructor_maxDefault(args) ==
    LET isMinHeap == IF args = <<>> THEN FALSE ELSE args[1]
    IN  [heap    |-> <<>>,
         compare |-> IF isMinHeap THEN "minCompare" ELSE "maxCompare"]

\* constructor(isMinHeap = true), called with the arguments args (none or
\* one): #heap and #compare of the new queue
constructor(args) ==
    LET isMinHeap == IF args = <<>> THEN TRUE ELSE args[1]
    IN  [heap    |-> <<>>,
         compare |-> IF isMinHeap THEN "minCompare" ELSE "maxCompare"]

\* new PriorityQueue(), new PriorityQueue(true), new PriorityQueue(false)
Init ==
    /\ arg \in {<<>>, <<TRUE>>, <<FALSE>>}
    /\ heap = constructor(arg).heap
    /\ compare = constructor(arg).compare
    /\ op = "new"
    /\ ret = UNDEFINED
    /\ done = FALSE
    /\ preHeap = <<>>
    /\ preCompare = compare
    /\ drainGen = "none"
    /\ iterGen = "none"
    /\ clone = <<>>
    /\ cloneCompare = "minCompare"
    /\ iterSnap = <<>>
    /\ iterOut = <<>>
    /\ enqueues = 0
    /\ dequeues = 0
    /\ preDrainGen = "none"
    /\ drainSnap = <<>>
    /\ drainOut = <<>>
    /\ drainTaken = <<>>
    /\ drainPulls = 0
    /\ iter2 = [gen |-> "none", clone |-> <<>>, cloneCompare |-> "minCompare",
                snap |-> <<>>, out |-> <<>>]

Enqueue(value, priority) ==
    /\ heap' = enqueue(heap, compare, value, priority)
    /\ compare' = compare
    /\ Called("enqueue", <<[value |-> value, priority |-> priority]>>,
              UNDEFINED, FALSE)

\* dequeue() putting the mode back to the default when it takes the last entry
Dequeue_resetOnEmpty ==
    /\ heap' = dequeue(heap, compare).heap
    /\ compare' = IF isEmpty(dequeue(heap, compare).heap)
                  THEN "minCompare"
                  ELSE compare
    /\ Called("dequeue", <<>>, dequeue(heap, compare).value, FALSE)

Dequeue ==
    /\ heap' = dequeue(heap, compare).heap
    /\ compare' = compare
    /\ Called("dequeue", <<>>, dequeue(heap, compare).value, FALSE)

Peek ==
    /\ UNCHANGED <<heap, compare>>
    /\ Called("peek", <<>>, peek(heap), FALSE)

IsEmpty ==
    /\ UNCHANGED <<heap, compare>>
    /\ Called("isEmpty", <<>>, isEmpty(heap), FALSE)

Size ==
    /\ UNCHANGED <<heap, compare>>
    /\ Called("size", <<>>, size(heap), FALSE)

SetMinHeap ==
    /\ heap' = setCompare(heap, compare, "minCompare").heap
    /\ compare' = setCompare(heap, compare, "minCompare").compare
    /\ Called("setMinHeap", <<>>, UNDEFINED, FALSE)

SetMaxHeap ==
    /\ heap' = setCompare(heap, compare, "maxCompare").heap
    /\ compare' = setCompare(heap, compare, "maxCompare").compare
    /\ Called("setMaxHeap", <<>>, UNDEFINED, FALSE)

\* drainFast() resetting the queue to that of new PriorityQueue(): an empty
\* array and the default mode
DrainFast_reset ==
    /\ heap' = drainFast(heap, compare).heap
    /\ compare' = "minCompare"
    /\ Called("drainFast", <<>>, drainFast(heap, compare).values, FALSE)

DrainFast ==
    /\ heap' = drainFast(heap, compare).heap
    /\ compare' = compare
    /\ Called("drainFast", <<>>, drainFast(heap, compare).values, FALSE)

\* drain(): makes the generator; its body has not run
Drain ==
    /\ drainGen' = "suspended"
    /\ UNCHANGED <<heap, compare>>
    /\ Called("drain", <<>>, UNDEFINED, FALSE)

\* next() on the generator made by drain()
DrainNext ==
    /\ drainGen # "none"
    /\ heap' = drainNext(heap, compare, drainGen).heap
    /\ drainGen' = drainNext(heap, compare, drainGen).gen
    /\ compare' = compare
    /\ Called("drain.next", <<>>, drainNext(heap, compare, drainGen).value,
              drainNext(heap, compare, drainGen).done)

\* return(value) on the generator made by drain()
DrainReturn(value) ==
    /\ drainGen # "none"
    /\ drainGen' = generatorReturn(drainGen, value).gen
    /\ UNCHANGED <<heap, compare>>
    /\ Called("drain.return", <<value>>,
              generatorReturn(drainGen, value).value,
              generatorReturn(drainGen, value).done)

\* throw(exception) on the generator made by drain()
DrainThrow ==
    /\ drainGen # "none"
    /\ drainGen' = generatorThrow(drainGen).gen
    /\ UNCHANGED <<heap, compare>>
    /\ Called("drain.throw", <<>>, generatorThrow(drainGen).value,
              generatorThrow(drainGen).done)

\* [Symbol.iterator]() taking the copy at once, when the generator is made
Iterator_eager ==
    /\ iterGen' = "running"
    /\ clone' = heap
    /\ cloneCompare' = compare
    /\ iterSnap' = heap
    /\ iterOut' = <<>>
    /\ UNCHANGED <<heap, compare>>
    /\ Called("iterator", <<>>, UNDEFINED, FALSE)

\* [Symbol.iterator](): makes the generator; its body has not run
Iterator ==
    /\ iterGen' = "start"
    /\ clone' = <<>>
    /\ cloneCompare' = "minCompare"
    /\ iterSnap' = <<>>
    /\ iterOut' = <<>>
    /\ UNCHANGED <<heap, compare>>
    /\ Called("iterator", <<>>, UNDEFINED, FALSE)

\* next() on the generator made by [Symbol.iterator]()
IteratorNext ==
    /\ iterGen # "none"
    /\ LET r == iteratorNext(heap, compare, iterGen, clone, cloneCompare)
       IN  /\ heap' = r.heap
           /\ clone' = r.clone
           /\ cloneCompare' = r.cloneCompare
           /\ iterGen' = r.gen
           /\ iterSnap' = IF iterGen = "start" THEN heap ELSE iterSnap
           /\ iterOut' = IF r.done
                         THEN iterOut
                         ELSE Append(iterOut, r.removed[Len(r.removed)])
           /\ Called("iterator.next", <<>>, r.value, r.done)
    /\ compare' = compare

\* return(value) on the generator made by [Symbol.iterator](): the clone, if
\* the body has made it, is left as it is
IteratorReturn(value) ==
    /\ iterGen # "none"
    /\ iterGen' = generatorReturn(iterGen, value).gen
    /\ UNCHANGED <<heap, compare, clone, cloneCompare, iterSnap, iterOut>>
    /\ Called("iterator.return", <<value>>,
              generatorReturn(iterGen, value).value,
              generatorReturn(iterGen, value).done)

\* throw(exception) on the generator made by [Symbol.iterator]()
IteratorThrow ==
    /\ iterGen # "none"
    /\ iterGen' = generatorThrow(iterGen).gen
    /\ UNCHANGED <<heap, compare, clone, cloneCompare, iterSnap, iterOut>>
    /\ Called("iterator.throw", <<>>, generatorThrow(iterGen).value,
              generatorThrow(iterGen).done)

\* a second call of [Symbol.iterator](), on the same queue: a generator of
\* its own
Iterator2 ==
    /\ iter2' = [gen |-> "start", clone |-> <<>>,
                 cloneCompare |-> "minCompare", snap |-> <<>>, out |-> <<>>]
    /\ UNCHANGED <<heap, compare>>
    /\ Called("iterator2", <<>>, UNDEFINED, FALSE)

\* next() on that second generator
Iterator2Next ==
    /\ iter2.gen # "none"
    /\ LET r == iteratorNext(heap, compare, iter2.gen, iter2.clone,
                             iter2.cloneCompare)
       IN  /\ heap' = r.heap
           /\ iter2' = [gen          |-> r.gen,
                        clone        |-> r.clone,
                        cloneCompare |-> r.cloneCompare,
                        snap |-> IF iter2.gen = "start"
                                 THEN heap
                                 ELSE iter2.snap,
                        out  |-> IF r.done
                                 THEN iter2.out
                                 ELSE Append(iter2.out,
                                             r.removed[Len(r.removed)])]
           /\ Called("iterator2.next", <<>>, r.value, r.done)
    /\ compare' = compare

\* return(value) and throw(exception) on that second generator
Iterator2Return(value) ==
    /\ iter2.gen # "none"
    /\ iter2' = [iter2 EXCEPT !.gen = generatorReturn(iter2.gen, value).gen]
    /\ UNCHANGED <<heap, compare>>
    /\ Called("iterator2.return", <<value>>,
              generatorReturn(iter2.gen, value).value,
              generatorReturn(iter2.gen, value).done)

Iterator2Throw ==
    /\ iter2.gen # "none"
    /\ iter2' = [iter2 EXCEPT !.gen = generatorThrow(iter2.gen).gen]
    /\ UNCHANGED <<heap, compare>>
    /\ Called("iterator2.throw", <<>>, generatorThrow(iter2.gen).value,
              generatorThrow(iter2.gen).done)

\* what an operation on the queue leaves alone
Others == <<drainVars, iterVars, countVars, preVars, logVars, iter2Vars>>

(***************************************************************************)
(* Spec: the operations on the queue itself, with any values.              *)
(***************************************************************************)
Next ==
    \/ \E value \in Values, priority \in Priorities :
           Len(heap) < MaxSize /\ Enqueue(value, priority) /\ UNCHANGED Others
    \/ Dequeue /\ UNCHANGED Others
    \/ Peek /\ UNCHANGED Others
    \/ SetMinHeap /\ UNCHANGED Others
    \/ SetMaxHeap /\ UNCHANGED Others
    \/ DrainFast /\ UNCHANGED Others

Spec == Init /\ [][Next]_vars

(***************************************************************************)
(* SpecEnqDeq: any interleaving of enqueue and dequeue calls.              *)
(***************************************************************************)
NextEnqDeq ==
    \/ \E value \in Values, priority \in Priorities :
           Len(heap) < MaxSize /\ Enqueue(value, priority) /\ UNCHANGED Others
    \/ Dequeue /\ UNCHANGED Others

SpecEnqDeq == Init /\ [][NextEnqDeq]_vars

(***************************************************************************)
(* SpecDrain: the queue together with one generator made by drain().       *)
(***************************************************************************)
NextDrain ==
    \/ Next
    \/ Drain /\ UNCHANGED <<iterVars, countVars, preVars, logVars, iter2Vars>>
    \/ /\ DrainNext
       /\ UNCHANGED <<iterVars, countVars, preVars, logVars, iter2Vars>>
    \/ \E value \in Values :
           /\ DrainReturn(value)
           /\ UNCHANGED <<iterVars, countVars, preVars, logVars, iter2Vars>>
    \/ /\ DrainThrow
       /\ UNCHANGED <<iterVars, countVars, preVars, logVars, iter2Vars>>

SpecDrain == Init /\ [][NextDrain]_vars

(***************************************************************************)
(* SpecLoad: a queue is loaded by enqueues only and then emptied by        *)
(* dequeues only.                                                          *)
(***************************************************************************)
NextLoad ==
    \/ \E priority \in Priorities :
           /\ op \in {"new", "enqueue"}
           /\ Len(heap) < MaxLoad
           /\ Enqueue("a", priority)
           /\ UNCHANGED Others
    \/ heap # <<>> /\ Dequeue /\ UNCHANGED Others

SpecLoad == Init /\ [][NextLoad]_vars

(***************************************************************************)
(* SpecIter: a queue of MaxPull entries at most is built by any            *)
(* operations; then an iterator is made and pulled, or closed by return()  *)
(* or throw(), with no operation on the queue in between.  A new iterator  *)
(* may be made at any time.                                                *)
(***************************************************************************)
NextIter ==
    \/ iterGen = "none" /\ Next /\ Len(heap') <= MaxPull
    \/ /\ Iterator
       /\ UNCHANGED <<drainVars, countVars, preVars, logVars, iter2Vars>>
    \/ /\ IteratorNext
       /\ UNCHANGED <<drainVars, countVars, preVars, logVars, iter2Vars>>
    \/ \E value \in Values :
           /\ IteratorReturn(value)
           /\ UNCHANGED <<drainVars, countVars, preVars, logVars, iter2Vars>>
    \/ /\ IteratorThrow
       /\ UNCHANGED <<drainVars, countVars, preVars, logVars, iter2Vars>>

SpecIter == Init /\ [][NextIter]_vars

(***************************************************************************)
(* SpecIterLoad: a queue is loaded by enqueues only, of values that are    *)
(* not undefined; then one iterator is made and pulled.                    *)
(***************************************************************************)
NextIterLoad ==
    \/ \E priority \in Priorities :
           /\ op \in {"new", "enqueue"}
           /\ Len(heap) < MaxLoad
           /\ Enqueue("a", priority)
           /\ UNCHANGED Others
    \/ /\ iterGen = "none"
       /\ Iterator
       /\ UNCHANGED <<drainVars, countVars, preVars, logVars, iter2Vars>>
    \/ /\ IteratorNext
       /\ UNCHANGED <<drainVars, countVars, preVars, logVars, iter2Vars>>
    \/ \E value \in Values :
           /\ IteratorReturn(value)
           /\ UNCHANGED <<drainVars, countVars, preVars, logVars, iter2Vars>>
    \/ /\ IteratorThrow
       /\ UNCHANGED <<drainVars, countVars, preVars, logVars, iter2Vars>>

SpecIterLoad == Init /\ [][NextIterLoad]_vars

(***************************************************************************)
(* SpecIterTwo: a queue is loaded by enqueues only, of values that are not *)
(* undefined; then two iterators are made, one after the other, and their  *)
(* pulls are interleaved in any order.                                     *)
(***************************************************************************)
NextIterTwo ==
    \/ \E priority \in Priorities :
           /\ op \in {"new", "enqueue"}
           /\ Len(heap) < MaxLoad
           /\ Enqueue("a", priority)
           /\ UNCHANGED Others
    \/ /\ iterGen = "none"
       /\ Iterator
       /\ UNCHANGED <<drainVars, countVars, preVars, logVars, iter2Vars>>
    \/ /\ iterGen # "none"
       /\ iter2.gen = "none"
       /\ Iterator2
       /\ UNCHANGED <<drainVars, iterVars, countVars, preVars, logVars>>
    \/ /\ iter2.gen # "none"
       /\ IteratorNext
       /\ UNCHANGED <<drainVars, countVars, preVars, logVars, iter2Vars>>
    \/ /\ Iterator2Next
       /\ UNCHANGED <<drainVars, iterVars, countVars, preVars, logVars>>
    \/ \E value \in Values :
           /\ iter2.gen # "none"
           /\ IteratorReturn(value)
           /\ UNCHANGED <<drainVars, countVars, preVars, logVars, iter2Vars>>
    \/ /\ iter2.gen # "none"
       /\ IteratorThrow
       /\ UNCHANGED <<drainVars, countVars, preVars, logVars, iter2Vars>>
    \/ \E value \in Values :
           /\ Iterator2Return(value)
           /\ UNCHANGED <<drainVars, iterVars, countVars, preVars, logVars>>
    \/ /\ Iterator2Throw
       /\ UNCHANGED <<drainVars, iterVars, countVars, preVars, logVars>>

SpecIterTwo == Init /\ [][NextIterTwo]_vars

(***************************************************************************)
(* The generator made by drain(), with what it does logged: drainSnap is   *)
(* #heap when drain() was called, drainPulls the number of next() calls,   *)
(* drainTaken the entries those calls took out of #heap, and drainOut the  *)
(* entries among them whose value was yielded.                             *)
(***************************************************************************)
DrainLogged ==
    /\ Drain
    /\ preDrainGen' = drainGen
    /\ drainSnap' = heap
    /\ drainOut' = <<>>
    /\ drainTaken' = <<>>
    /\ drainPulls' = 0
    /\ UNCHANGED <<iterVars, countVars, iter2Vars>>

DrainNextLogged ==
    /\ DrainNext
    /\ LET r == drainNext(heap, compare, drainGen)
       IN  /\ drainOut' = IF r.done
                          THEN drainOut
                          ELSE Append(drainOut, r.removed[Len(r.removed)])
           /\ drainTaken' = drainTaken \o r.removed
    /\ preDrainGen' = drainGen
    /\ drainPulls' = drainPulls + 1
    /\ drainSnap' = drainSnap
    /\ UNCHANGED <<iterVars, countVars, iter2Vars>>

DrainReturnLogged(value) ==
    /\ DrainReturn(value)
    /\ preDrainGen' = drainGen
    /\ UNCHANGED <<logVars, iterVars, countVars, iter2Vars>>

DrainThrowLogged ==
    /\ DrainThrow
    /\ preDrainGen' = drainGen
    /\ UNCHANGED <<logVars, iterVars, countVars, iter2Vars>>

(***************************************************************************)
(* SpecDrainLoad: a queue is loaded by enqueues only, of values that are   *)
(* not undefined; then drain() is called and its generator pulled, with    *)
(* no other operation in between, until it reports its end.                *)
(***************************************************************************)
NextDrainLoad ==
    \/ \E priority \in Priorities :
           /\ op \in {"new", "enqueue"}
           /\ Len(heap) < MaxLoad
           /\ Enqueue("a", priority)
           /\ UNCHANGED Others
    \/ drainGen = "none" /\ DrainLogged
    \/ drainGen = "suspended" /\ DrainNextLogged
    \/ \E value \in Values : drainGen = "suspended" /\ DrainReturnLogged(value)
    \/ drainGen = "suspended" /\ DrainThrowLogged

SpecDrainLoad == Init /\ [][NextDrainLoad]_vars

(***************************************************************************)
(* SpecGenLoad: a queue is loaded by enqueues only, none or more, of       *)
(* values that are not undefined; then drain() is called and its generator *)
(* pulled, and an iterator is made and pulled, the pulls of the two        *)
(* interleaved in any order.                                               *)
(***************************************************************************)
NextGenLoad ==
    \/ \E priority \in Priorities :
           /\ op \in {"new", "enqueue"}
           /\ Len(heap) < MaxPull
           /\ Enqueue("a", priority)
           /\ UNCHANGED Others
    \/ drainGen = "none" /\ DrainLogged
    \/ drainGen = "suspended" /\ DrainNextLogged
    \/ \E value \in Values : drainGen = "suspended" /\ DrainReturnLogged(value)
    \/ drainGen = "suspended" /\ DrainThrowLogged
    \/ /\ iterGen = "none"
       /\ Iterator
       /\ UNCHANGED <<drainVars, countVars, preVars, logVars, iter2Vars>>
    \/ /\ IteratorNext
       /\ UNCHANGED <<drainVars, countVars, preVars, logVars, iter2Vars>>
    \/ \E value \in Values :
           /\ IteratorReturn(value)
           /\ UNCHANGED <<drainVars, countVars, preVars, logVars, iter2Vars>>
    \/ /\ IteratorThrow
       /\ UNCHANGED <<drainVars, countVars, preVars, logVars, iter2Vars>>

SpecGenLoad == Init /\ [][NextGenLoad]_vars

(***************************************************************************)
(* SpecDrainLoadAny: as SpecDrainLoad, the queue loaded with any values.   *)
(***************************************************************************)
NextDrainLoadAny ==
    \/ \E value \in Values, priority \in Priorities :
           /\ op \in {"new", "enqueue"}
           /\ Len(heap) < MaxSize
           /\ Enqueue(value, priority)
           /\ UNCHANGED Others
    \/ drainGen = "none" /\ DrainLogged
    \/ drainGen = "suspended" /\ DrainNextLogged
    \/ \E value \in Values : drainGen = "suspended" /\ DrainReturnLogged(value)
    \/ drainGen = "suspended" /\ DrainThrowLogged

SpecDrainLoadAny == Init /\ [][NextDrainLoadAny]_vars

(***************************************************************************)
(* SpecPull: the operations on the queue, with any values, those on the    *)
(* generator made by drain() (next, return, throw), in any interleaving,   *)
(* and an iterator.                                                        *)
(* preDrainGen is the state of the drain() generator before the call.      *)
(* The operations on the queue and on the drain() generator are taken      *)
(* while no iterator is open.                                              *)
(***************************************************************************)
NoGen == <<drainVars, iterVars, countVars, logVars, iter2Vars>>

NextPull ==
    \/ \E value \in Values, priority \in Priorities :
           /\ iterGen = "none"
           /\ Len(heap) < MaxPull
           /\ Enqueue(value, priority)
           /\ preDrainGen' = drainGen
           /\ UNCHANGED NoGen
    \/ /\ iterGen = "none"
       /\ Dequeue
       /\ preDrainGen' = drainGen
       /\ UNCHANGED NoGen
    \/ /\ iterGen = "none"
       /\ SetMinHeap
       /\ preDrainGen' = drainGen
       /\ UNCHANGED NoGen
    \/ /\ iterGen = "none"
       /\ SetMaxHeap
       /\ preDrainGen' = drainGen
       /\ UNCHANGED NoGen
    \/ /\ iterGen = "none"
       /\ Drain
       /\ preDrainGen' = drainGen
       /\ UNCHANGED <<iterVars, countVars, logVars, iter2Vars>>
    \/ /\ iterGen = "none"
       /\ DrainNext
       /\ preDrainGen' = drainGen
       /\ UNCHANGED <<iterVars, countVars, logVars, iter2Vars>>
    \/ /\ iterGen = "none"
       /\ Iterator
       /\ preDrainGen' = drainGen
       /\ UNCHANGED <<drainVars, countVars, logVars, iter2Vars>>
    \/ /\ IteratorNext
       /\ preDrainGen' = drainGen
       /\ UNCHANGED <<drainVars, countVars, logVars, iter2Vars>>
    \/ \E value \in Values :
           /\ iterGen = "none"
           /\ DrainReturn(value)
           /\ preDrainGen' = drainGen
           /\ UNCHANGED <<iterVars, countVars, logVars, iter2Vars>>
    \/ /\ iterGen = "none"
       /\ DrainThrow
       /\ preDrainGen' = drainGen
       /\ UNCHANGED <<iterVars, countVars, logVars, iter2Vars>>
    \/ \E value \in Values :
           /\ IteratorReturn(value)
           /\ preDrainGen' = drainGen
           /\ UNCHANGED <<drainVars, countVars, logVars, iter2Vars>>
    \/ /\ IteratorThrow
       /\ preDrainGen' = drainGen
       /\ UNCHANGED <<drainVars, countVars, logVars, iter2Vars>>
    \/ /\ iterGen = "none"
       /\ DrainFast
       /\ preDrainGen' = drainGen
       /\ UNCHANGED NoGen

SpecPull == Init /\ [][NextPull]_vars

(***************************************************************************)
(* SpecIterLive: one generator made by [Symbol.iterator]() on the queue    *)
(* while it is empty, and the operations that change the iterated queue at *)
(* any time: between the making of the generator and its first next(), and *)
(* between its next() calls.  Every entry has the value "a".               *)
(***************************************************************************)
NoIter == <<drainVars, countVars, preVars, logVars, iter2Vars>>

NextIterLive ==
    \/ \E priority \in Priorities :
           /\ Len(heap) < MaxLive
           /\ Enqueue("a", priority)
           /\ UNCHANGED Others
    \/ Dequeue /\ UNCHANGED Others
    \/ SetMinHeap /\ UNCHANGED Others
    \/ SetMaxHeap /\ UNCHANGED Others
    \/ /\ iterGen = "none"
       /\ isEmpty(heap)
       /\ Iterator
       /\ UNCHANGED NoIter
    \/ IteratorNext /\ UNCHANGED NoIter
    \/ \E value \in Values : IteratorReturn(value) /\ UNCHANGED NoIter
    \/ IteratorThrow /\ UNCHANGED NoIter

SpecIterLive == Init /\ [][NextIterLive]_vars

(***************************************************************************)
(* SpecTies: a queue loaded by enqueues of entries of distinct values      *)
(* ("v0", "v1", ... in the order of the calls), its mode switched at any   *)
(* time, and emptied by drainFast().                                       *)
(***************************************************************************)
NextTies ==
    \/ \E priority \in Priorities :
           /\ Len(heap) < MaxTies
           /\ Enqueue("v" \o ToString(Len(heap)), priority)
           /\ UNCHANGED Others
    \/ SetMinHeap /\ UNCHANGED Others
    \/ SetMaxHeap /\ UNCHANGED Others
    \/ DrainFast /\ UNCHANGED Others

SpecTies == Init /\ [][NextTies]_vars

(***************************************************************************)
(* SpecAll: SpecPull with the three queries, every public operation of the *)
(* class.                                                                  *)
(***************************************************************************)
NextAll ==
    \/ NextPull
    \/ /\ iterGen = "none"
       /\ Peek
       /\ preDrainGen' = drainGen
       /\ UNCHANGED NoGen
    \/ /\ iterGen = "none"
       /\ IsEmpty
       /\ preDrainGen' = drainGen
       /\ UNCHANGED NoGen
    \/ /\ iterGen = "none"
       /\ Size
       /\ preDrainGen' = drainGen
       /\ UNCHANGED NoGen

SpecAll == Init /\ [][NextAll]_vars

(***************************************************************************)
(* SpecCount: the operations on the queue and on the generators made by   *)
(* drain() and by [Symbol.iterator](), with the calls counted: enqueues is *)
(* the number of enqueue calls and dequeues the number of dequeue calls on *)
(* a non-empty queue, both since creation or since the last full drain (a  *)
(* drainFast(), or a drain() generator running to its end).  The dequeues  *)
(* an iterator makes on its copy are not calls on the queue and are not    *)
(* counted.  An iterator is made on an empty queue, which loses no case as *)
(* its body, copy included, runs at the first next(); while one exists the *)
(* queue holds MaxLive entries at most, and a behaviour has a drain()      *)
(* generator or an iterator, not both (SpecPull interleaves the two).      *)
(***************************************************************************)
Counted(e, d) ==
    /\ enqueues' = e
    /\ dequeues' = d
    /\ UNCHANGED <<iterVars, preVars, logVars, iter2Vars>>

\* the counters across a call on the iterator's generator
CountedIterating ==
    /\ UNCHANGED <<countVars, drainVars, preVars, logVars, iter2Vars>>

NextCount ==
    \/ \E priority \in Priorities :
           /\ Len(heap) < (IF iterGen = "none" THEN MaxSize ELSE MaxLive)
           /\ enqueues < MaxEnqueues
           /\ Enqueue("a", priority)
           /\ Counted(enqueues + 1, dequeues)
           /\ UNCHANGED drainVars
    \/ /\ Dequeue
       /\ Counted(enqueues, dequeues + Len(dequeue(heap, compare).removed))
       /\ UNCHANGED drainVars
    \/ Peek /\ Counted(enqueues, dequeues) /\ UNCHANGED drainVars
    \/ SetMinHeap /\ Counted(enqueues, dequeues) /\ UNCHANGED drainVars
    \/ SetMaxHeap /\ Counted(enqueues, dequeues) /\ UNCHANGED drainVars
    \/ DrainFast /\ Counted(0, 0) /\ UNCHANGED drainVars
    \/ iterGen = "none" /\ Drain /\ Counted(enqueues, dequeues)
    \/ /\ DrainNext
       /\ IF drainGen = "suspended" /\ drainNext(heap, compare, drainGen).done
          THEN Counted(0, 0)
          ELSE Counted(enqueues,
                       dequeues
                       + Len(drainNext(heap, compare, drainGen).removed))
    \/ \E value \in Values :
           DrainReturn(value) /\ Counted(enqueues, dequeues)
    \/ DrainThrow /\ Counted(enqueues, dequeues)
    \/ /\ iterGen = "none" /\ drainGen = "none" /\ isEmpty(heap)
       /\ Iterator /\ CountedIterating
    \/ IteratorNext /\ CountedIterating
    \/ \E value \in Values : IteratorReturn(value) /\ CountedIterating
    \/ IteratorThrow /\ CountedIterating

SpecCount == Init /\ [][NextCount]_vars

(***************************************************************************)
(* Vocabulary of the properties.                                           *)
(***************************************************************************)
Range(s) == {s[i] : i \in DOMAIN s}

\* the multiset of the elements of a sequence
BagOf(s) == [e \in Range(s) |-> Cardinality({i \in DOMAIN s : s[i] = e})]

\* priority p is dequeued no later than priority q under the mode cmp
NotAfter(cmp, p, q) == IF cmp = "minCompare" THEN p <= q ELSE p >= q

\* the priorities of a sequence of entries are in the order of the mode cmp
InPriorityOrder(cmp, s) ==
    \A i, j \in DOMAIN s : i < j => NotAfter(cmp, s[i].priority, s[j].priority)

\* the entries of before that are missing in after, when there is exactly one
TakenOut(before, after) ==
    {e \in Range(before) : BagOf(before) = BagOf(after) (+) SetToBag({e})}

\* the array h satisfies the heap property under the mode cmp
HeapOrdered(h, cmp) ==
    \A i \in 0 .. Len(h) - 1 : \A c \in {2 * i + 1, 2 * i + 2} :
        c < Len(h) => NotAfter(cmp, At(h, i).priority, At(h, c).priority)

\* the entries that dequeuing the array h to exhaustion returns, in order
RECURSIVE DequeueAll(_, _)
DequeueAll(h, cmp) ==
    IF isEmpty(h)
    THEN <<>>
    ELSE dequeue(h, cmp).removed \o DequeueAll(dequeue(h, cmp).heap, cmp)

ModeSetters == {"setMinHeap", "setMaxHeap"}

\* the positions in h of the entries of priority p
AtPriority(h, p) == {i \in DOMAIN h : h[i].priority = p}

\* the positions in h of the entries dequeued before those of priority p
\* under the mode cmp
Before(h, cmp, p) ==
    {i \in DOMAIN h : h[i].priority # p /\ NotAfter(cmp, h[i].priority, p)}

\* the multiset of the values that h stores at priority p
ValuesAtPriority(h, p) ==
    [v \in {h[i].value : i \in AtPriority(h, p)} |->
        Cardinality({i \in AtPriority(h, p) : h[i].value = v})]

\* vals lists the values of the entries of h in the priority order of the
\* mode cmp: one block of positions for each priority, the blocks in the
\* order of the mode, each holding the values stored at that priority, in
\* any order
ValuesInPriorityOrder(vals, h, cmp) ==
    /\ Len(vals) = Len(h)
    /\ \A p \in {h[i].priority : i \in DOMAIN h} :
           LET first == Cardinality(Before(h, cmp, p)) + 1
               last == Cardinality(Before(h, cmp, p))
                           + Cardinality(AtPriority(h, p))
           IN  BagOf(SubSeq(vals, first, last)) = ValuesAtPriority(h, p)

\* the calls of a snapshot iteration
IteratorCalls ==
    {"iterator", "iterator.next", "iterator.return", "iterator.throw"}

\* the calls that close a generator without running its body
GeneratorClosers ==
    {"drain.return", "drain.throw", "iterator.return", "iterator.throw"}

\* the drain() generator has been consumed to its end: it is closed and has
\* left nothing in the queue (a generator closed by return() or throw() with
\* entries left was not)
DrainedToEnd == drainGen = "closed" /\ isEmpty(heap)

\* the iterator has been consumed to its end: it is closed and has left
\* nothing in its copy
IteratedToEnd == iterGen = "closed" /\ isEmpty(clone)

\* the comparison function a setter installs
TargetOf(setter) == IF setter = "setMinHeap" THEN "minCompare" ELSE "maxCompare"

(***************************************************************************)
(* C1.  Heap-order invariant: after every completed public operation       *)
(* (enqueue, dequeue, setMinHeap, setMaxHeap, a pull of drain(),           *)
(* drainFast), every parent i and each existing child c in {2i+1, 2i+2}    *)
(* satisfy priority[i] <= priority[c] in min mode and                      *)
(* priority[i] >= priority[c] in max mode.                                 *)
(***************************************************************************)
C1_HeapOrder == HeapOrdered(heap, compare)

(***************************************************************************)
(* C2.  Each dequeue() on a non-empty queue takes out exactly one entry,   *)
(* returns its value, and no entry of the queue at that moment has a       *)
(* strictly lower priority (min mode) or a strictly higher one (max mode). *)
(***************************************************************************)
C2_DequeueExtremal ==
    (op = "dequeue" /\ preHeap # <<>>) =>
        \E e \in TakenOut(preHeap, heap) :
            /\ ret = e.value
            /\ \A x \in Range(preHeap) :
                   NotAfter(preCompare, e.priority, x.priority)

(***************************************************************************)
(* C3.  Dequeues that follow one another with no other operation between   *)
(* return entries in priority order: of two consecutive dequeues from a    *)
(* non-empty queue, the first returns a priority not after the second's    *)
(* (non-decreasing in min mode, non-increasing in max mode).               *)
(***************************************************************************)
C3_DequeueRunOrdered ==
    [][(/\ op = "dequeue" /\ preHeap # <<>>
        /\ op' = "dequeue" /\ heap # <<>>)
       => \A e1 \in TakenOut(preHeap, heap) : \A e2 \in TakenOut(heap, heap') :
              /\ compare' = preCompare
              /\ NotAfter(compare', e1.priority, e2.priority)]_vars

(***************************************************************************)
(* C4.  Size invariant: size equals the enqueue calls minus the dequeue    *)
(* calls made on a non-empty queue, counted since creation or since the    *)
(* last full drain; a dequeue on an empty queue, a mode switch, a peek and *)
(* every call of a snapshot iteration ([Symbol.iterator]() and next(),     *)
(* return() and throw() of its generator) leave size as it was.            *)
(***************************************************************************)
C4_SizeCount ==
    /\ size(heap) = enqueues - dequeues
    /\ (op = "dequeue" /\ preHeap = <<>>) => size(heap) = size(preHeap)
    /\ op \in ModeSetters \cup {"peek"} => size(heap) = size(preHeap)
    /\ op \in IteratorCalls => size(heap) = size(preHeap)

\* enqueues and dequeues have interleaved, a snapshot iteration has yielded
\* two entries of its copy, and an entry was enqueued into a queue that had
\* held more
C4_Witness ==
    /\ op = "enqueue"
    /\ dequeues >= 2
    /\ enqueues >= 4
    /\ size(heap) >= 2
    /\ Len(iterOut) >= 2

(***************************************************************************)
(* C5.  On an empty queue dequeue() and peek() return undefined, raise     *)
(* nothing, and leave the queue as it was: empty, size 0, same mode.       *)
(***************************************************************************)
C5_EmptySignal ==
    (op \in {"dequeue", "peek"} /\ preHeap = <<>>) =>
        /\ ret = UNDEFINED
        /\ heap = <<>>
        /\ isEmpty(heap)
        /\ size(heap) = 0
        /\ compare = preCompare

\* dequeue() was called on an empty queue in max mode
C5_Witness ==
    /\ op = "dequeue"
    /\ preHeap = <<>>
    /\ heap = <<>>
    /\ compare = "maxCompare"

(***************************************************************************)
(* C6.  peek() leaves the backing array, the size and the mode unchanged,  *)
(* and on a non-empty queue the dequeue() that follows it immediately      *)
(* returns the value peek() returned.                                      *)
(***************************************************************************)
C6_PeekFrame ==
    /\ [](op = "peek" =>
              /\ heap = preHeap
              /\ size(heap) = size(preHeap)
              /\ compare = preCompare)
    /\ [][(op = "peek" /\ heap # <<>> /\ op' = "dequeue") => ret' = ret]_vars

\* peek() on a queue whose first and last entries hold different values
C6_Witness ==
    /\ op = "peek"
    /\ Len(heap) >= 3
    /\ ret = "a"
    /\ At(heap, Len(heap) - 1).value # ret

(***************************************************************************)
(* C7.  Mode-switch correctness: after setMaxHeap() (setMinHeap()) has     *)
(* changed the mode, the dequeues that follow return all the entries,      *)
(* those enqueued before the switch included, in the order of the new      *)
(* mode.                                                                   *)
(***************************************************************************)
C7_ModeSwitchOrder ==
    (op \in ModeSetters /\ compare # preCompare) =>
        /\ compare = TargetOf(op)
        /\ BagOf(DequeueAll(heap, compare)) = BagOf(preHeap)
        /\ InPriorityOrder(compare, DequeueAll(heap, compare))

(***************************************************************************)
(* C8.  A setter called in the mode it sets is a no-op: the backing array, *)
(* the size and the mode are unchanged; so the second of two calls of the  *)
(* same setter in a row changes nothing.                                   *)
(***************************************************************************)
C8_SameModeNoOp ==
    /\ []((op \in ModeSetters /\ preCompare = TargetOf(op)) =>
              /\ heap = preHeap
              /\ size(heap) = size(preHeap)
              /\ compare = preCompare)
    /\ [][(op \in ModeSetters /\ op' = op) =>
              /\ heap' = heap
              /\ compare' = compare]_vars

\* a setter was called in its own mode on an array that does not satisfy
\* the heap property, which a reheapify would rearrange
C8_Witness ==
    /\ op \in ModeSetters
    /\ preCompare = TargetOf(op)
    /\ Len(heap) >= 4
    /\ reheapify(heap, compare) # heap

(***************************************************************************)
(* C9.  Snapshot iteration is non-destructive: making the iterator, each   *)
(* of its pulls and its closing by return() or throw() leave the backing   *)
(* array, the size and the mode of the queue unchanged, so that a queue    *)
(* iterated in part or to the end is as it was when the iterator took its  *)
(* copy of it.                                                             *)
(***************************************************************************)
C9_IterationFrame ==
    /\ op \in {"iterator", "iterator.next", "iterator.return",
                "iterator.throw"} =>
           /\ heap = preHeap
           /\ size(heap) = size(preHeap)
           /\ compare = preCompare
    /\ (iterGen \in {"running", "closed"} /\ ~isEmpty(iterSnap)) =>
           /\ heap = iterSnap
           /\ compare = cloneCompare

\* an iteration consumed in part: two values pulled, more to come
C9_Witness ==
    /\ op = "iterator.next"
    /\ iterGen = "running"
    /\ Len(iterOut) >= 2
    /\ Len(clone) >= 1
    /\ Len(heap) >= 3

(***************************************************************************)
(* C10.  A snapshot iteration consumed to its end has yielded exactly as   *)
(* many values as the queue holds entries, a permutation of the stored     *)
(* values, in the priority order of the active mode.                       *)
(***************************************************************************)
C10_IterationSorted ==
    IteratedToEnd =>
        /\ Len(iterOut) = size(iterSnap)
        /\ BagOf(mapValue(iterOut)) = BagOf(mapValue(iterSnap))
        /\ InPriorityOrder(cloneCompare, iterOut)

(***************************************************************************)
(* C11.  Two snapshot iterations of the same queue, their pulls            *)
(* interleaved in any order, each work on a copy of their own: each, once  *)
(* consumed to its end, has yielded every stored value once, in the        *)
(* priority order of the active mode, and neither changes the other's      *)
(* copy or the queue.                                                      *)
(***************************************************************************)
C11_TwoIterations ==
    /\ iterGen \in {"running", "closed"} =>
           /\ ~isEmpty(iterSnap) => heap = iterSnap
           /\ BagOf(iterOut) (+) BagOf(clone) = BagOf(iterSnap)
    /\ iter2.gen \in {"running", "closed"} =>
           /\ ~isEmpty(iter2.snap) => heap = iter2.snap
           /\ BagOf(iter2.out) (+) BagOf(iter2.clone) = BagOf(iter2.snap)
    /\ IteratedToEnd =>
           /\ BagOf(mapValue(iterOut)) = BagOf(mapValue(iterSnap))
           /\ InPriorityOrder(cloneCompare, iterOut)
    /\ (iter2.gen = "closed" /\ isEmpty(iter2.clone)) =>
           /\ BagOf(mapValue(iter2.out)) = BagOf(mapValue(iter2.snap))
           /\ InPriorityOrder(iter2.cloneCompare, iter2.out)


(***************************************************************************)
(* C12.  Round trip: after n entries have been enqueued and the drain()    *)
(* generator consumed to its end, it has yielded exactly n values, every   *)
(* enqueued value once, in non-decreasing priority order in min mode and   *)
(* in non-increasing priority order in max mode.                           *)
(***************************************************************************)
C12_DrainRoundTrip ==
    DrainedToEnd =>
        /\ Len(drainOut) = Len(drainSnap)
        /\ BagOf(mapValue(drainOut)) = BagOf(mapValue(drainSnap))
        /\ InPriorityOrder(compare, drainOut)


(***************************************************************************)
(* C13.  When a drain() generator reports its end, the queue is empty:     *)
(* isEmpty() is true and size is 0; and it is still so after any later     *)
(* call that is not an enqueue.                                            *)
(***************************************************************************)
C13_DrainedEmpty ==
    /\ (op = "drain.next" /\ preDrainGen = "suspended" /\ done) =>
           /\ drainGen = "closed"
           /\ isEmpty(heap)
           /\ size(heap) = 0
    /\ (op # "enqueue" /\ isEmpty(preHeap)) =>
           /\ isEmpty(heap)
           /\ size(heap) = 0

\* a drain() generator reports its end on a pull that found entries in the
\* queue, all of them with the value undefined
C13_Witness ==
    /\ op = "drain.next"
    /\ preDrainGen = "suspended"
    /\ done
    /\ Len(preHeap) >= 2


(***************************************************************************)
(* C14.  drainFast() on a queue of n entries returns n values, a           *)
(* permutation of the stored values, ordered by priority under the active  *)
(* mode (the values of equal priority in any order), and leaves the queue  *)
(* empty and its mode as it was; on an empty queue it returns the empty    *)
(* sequence.                                                               *)
(***************************************************************************)
C14_DrainFastSorted ==
    op = "drainFast" =>
        /\ Len(ret) = size(preHeap)
        /\ BagOf(ret) = BagOf(mapValue(preHeap))
        /\ ValuesInPriorityOrder(ret, preHeap, preCompare)
        /\ isEmpty(preHeap) => ret = <<>>
        /\ isEmpty(heap)
        /\ size(heap) = 0
        /\ compare = preCompare

\* drainFast() on a max-heap of four entries or more, of three priorities,
\* whose array was not in priority order
C14_Witness ==
    /\ op = "drainFast"
    /\ preCompare = "maxCompare"
    /\ Len(preHeap) >= 4
    /\ Cardinality({preHeap[i].priority : i \in DOMAIN preHeap}) = 3
    /\ ~InPriorityOrder(preCompare, preHeap)
    /\ Cardinality(Range(ret)) = 2


(***************************************************************************)
(* C15.  drain() and drainFast() agree: the values a drain() generator     *)
(* has yielded when consumed to its end, and the array drainFast() returns *)
(* for the same entries in the same mode, have the same length, the same   *)
(* priority at every position and, for every priority, the same multiset   *)
(* of values.                                                              *)
(***************************************************************************)
C15_DrainEquivalence ==
    DrainedToEnd =>
        LET sorted == sort(drainSnap, compare)
        IN  /\ mapValue(sorted) = drainFast(drainSnap, compare).values
            /\ Len(drainOut) = Len(sorted)
            /\ \A i \in DOMAIN drainOut :
                   i \in DOMAIN sorted =>
                       drainOut[i].priority = sorted[i].priority
            /\ \A p \in Priorities :
                   ValuesAtPriority(drainOut, p) = ValuesAtPriority(sorted, p)


(***************************************************************************)
(* C16.  drain() is pull-driven: the call of drain() removes nothing, and  *)
(* after k pulls on a queue that held n entries, k <= n and nothing else   *)
(* called in between, exactly k entries have been removed from the queue.  *)
(***************************************************************************)
C16_PullDriven ==
    /\ op = "drain" => heap = preHeap
    /\ (drainGen # "none" /\ drainPulls <= Len(drainSnap)) =>
           /\ Len(drainTaken) = drainPulls
           /\ size(heap) = size(drainSnap) - drainPulls


(***************************************************************************)
(* C17.  Partial drain: after k pulls of drain() on a queue that held n    *)
(* entries, k < n, the queue holds the n - k entries not yet yielded, its  *)
(* array satisfies the heap property under the current mode, and the       *)
(* dequeues that follow return its entries in priority order.              *)
(***************************************************************************)
C17_PartialDrain ==
    (op = "drain.next" /\ drainGen = "suspended"
                       /\ Len(drainOut) < Len(drainSnap)) =>
        /\ size(heap) = size(drainSnap) - Len(drainOut)
        /\ BagOf(heap) (+) BagOf(drainOut) = BagOf(drainSnap)
        /\ HeapOrdered(heap, compare)
        /\ InPriorityOrder(compare, DequeueAll(heap, compare))


(***************************************************************************)
(* C18.  drain() on an empty queue, and the iteration of an empty queue,   *)
(* give an empty sequence and no error: every pull reports the end with    *)
(* no value, nothing is yielded, and the queue stays empty, of size 0.     *)
(***************************************************************************)
C18_EmptySequences ==
    /\ (drainGen # "none" /\ isEmpty(drainSnap)) =>
           /\ drainOut = <<>>
           /\ isEmpty(heap)
           /\ size(heap) = 0
           /\ op = "drain.next" => (done /\ ret = UNDEFINED)
    /\ (op = "iterator.next" /\ isEmpty(preHeap) /\ iterOut = <<>>) =>
           /\ done
           /\ ret = UNDEFINED
           /\ iterGen = "closed"
           /\ isEmpty(iterSnap)
           /\ isEmpty(heap)
           /\ size(heap) = 0

\* a queue never loaded, its drain() generator and its iterator both pulled
C18_Witness ==
    /\ drainGen = "closed"
    /\ isEmpty(drainSnap)
    /\ drainPulls = 1
    /\ iterGen = "closed"
    /\ isEmpty(iterSnap)
    /\ op = "iterator.next"


(***************************************************************************)
(* C19.  A drain() generator is not restartable: a pull that finds the     *)
(* queue empty reports the end, with no value and no error; and once the   *)
(* generator has reported its end, every later pull reports the end again  *)
(* with no value and removes nothing, whatever has been enqueued since.    *)
(***************************************************************************)
C19_NotRestartable ==
    /\ (op = "drain.next" /\ preDrainGen = "suspended" /\ isEmpty(preHeap)) =>
           /\ done
           /\ ret = UNDEFINED
           /\ drainGen = "closed"
           /\ heap = preHeap
    /\ (op = "drain.next" /\ preDrainGen = "closed") =>
           /\ done
           /\ ret = UNDEFINED
           /\ drainGen = "closed"
           /\ heap = preHeap
    /\ (op # "drain" /\ preDrainGen = "closed") => drainGen = "closed"

\* a pull of a generator that had reported its end, on a queue loaded since
\* with a value that is not undefined
C19_Witness ==
    /\ op = "drain.next"
    /\ preDrainGen = "closed"
    /\ Len(heap) >= 2
    /\ At(heap, 0).value # UNDEFINED


\* the operation just completed has emptied the queue: a dequeue of the
\* last entry, a drainFast(), or the pull at which a drain() generator
\* reported its end
Emptied ==
    \/ op = "dequeue" /\ Len(preHeap) = 1
    \/ op = "drainFast"
    \/ op = "drain.next" /\ preDrainGen = "suspended" /\ done

\* #heap and #compare as the constructor sets them for the mode cmp
NewQueue(cmp) == [heap |-> <<>>, compare |-> cmp]

(***************************************************************************)
(* C20.  No terminal state: a queue emptied by drain(), by drainFast() or  *)
(* by dequeues has kept its mode and is in the state of a newly            *)
(* constructed queue of that mode, so that it answers every later          *)
(* operation as a new queue does: it takes an entry and gives it back.     *)
(***************************************************************************)
C20_EmptiedAsNew ==
    Emptied =>
        /\ compare = preCompare
        /\ [heap |-> heap, compare |-> compare] = NewQueue(preCompare)
        /\ \A e \in QueueElement :
               LET q == enqueue(heap, compare, e.value, e.priority)
               IN  /\ q = <<e>>
                   /\ peek(q) = e.value
                   /\ dequeue(q, compare).value = e.value
                   /\ dequeue(q, compare).heap = <<>>

\* a max-heap of three entries or more emptied by drainFast()
C20_Witness ==
    /\ Emptied
    /\ op = "drainFast"
    /\ Len(preHeap) >= 3
    /\ preCompare = "maxCompare"


\* under the mode cmp the entry of lower priority comes first
MinFirst(cmp) ==
    \A a, b \in QueueElement :
        /\ Compare(cmp, a, b) < 0 <=> a.priority < b.priority
        /\ a.priority < b.priority =>
               /\ peek(enqueue(enqueue(<<>>, cmp, a.value, a.priority),
                               cmp, b.value, b.priority)) = a.value
               /\ peek(enqueue(enqueue(<<>>, cmp, b.value, b.priority),
                               cmp, a.value, a.priority)) = a.value

\* under the mode cmp the entry of higher priority comes first
MaxFirst(cmp) ==
    \A a, b \in QueueElement :
        /\ Compare(cmp, a, b) < 0 <=> a.priority > b.priority
        /\ a.priority > b.priority =>
               /\ peek(enqueue(enqueue(<<>>, cmp, a.value, a.priority),
                               cmp, b.value, b.priority)) = a.value
               /\ peek(enqueue(enqueue(<<>>, cmp, b.value, b.priority),
                               cmp, a.value, a.priority)) = a.value

(***************************************************************************)
(* C21.  A queue is created empty; created with no argument or with true   *)
(* it is min-first, created with false it is max-first.                    *)
(***************************************************************************)
C21_Construction ==
    op = "new" =>
        /\ isEmpty(heap)
        /\ size(heap) = 0
        /\ peek(heap) = UNDEFINED
        /\ arg \in {<<>>, <<TRUE>>} => MinFirst(compare)
        /\ arg = <<FALSE>> => MaxFirst(compare)

\* a queue created with no argument
C21_Witness ==
    /\ op = "new"
    /\ arg = <<>>
    /\ compare = "minCompare"


(***************************************************************************)
(* C22.  enqueue is total: whatever the value and the priority (negative,  *)
(* zero, equal to one already stored) it returns normally and adds exactly *)
(* the given entry, removing and merging none; a pair enqueued twice is    *)
(* stored twice, and dequeued twice.                                       *)
(***************************************************************************)
C22_EnqueueTotal ==
    op = "enqueue" =>
        /\ ret = UNDEFINED
        /\ size(heap) = size(preHeap) + 1
        /\ BagOf(heap) = BagOf(preHeap) (+) SetToBag({arg[1]})
        /\ BagOf(DequeueAll(heap, compare)) = BagOf(heap)

\* an entry of negative priority enqueued when the queue held it already,
\* among others
C22_Witness ==
    /\ op = "enqueue"
    /\ Len(preHeap) >= 3
    /\ arg[1] \in Range(preHeap)
    /\ arg[1].priority < 0
    /\ Cardinality(Range(preHeap)) >= 2


\* the array after holds the entries of the array before, but for its root
RootRemoved(before, after) ==
    BagOf(before) = BagOf(after) (+) SetToBag({At(before, 0)})

(***************************************************************************)
(* C23.  Entries are conserved: enqueue adds exactly the given entry; a    *)
(* dequeue and a pull of drain() on a queue that is not empty remove       *)
(* exactly the root entry, whose value they return; drainFast() removes    *)
(* all; every other operation, the mode switches among them, leaves the    *)
(* multiset of entries as it was; and the sifts only permute the array.    *)
(***************************************************************************)
C23_Conservation ==
    /\ op = "enqueue" =>
           BagOf(heap) = BagOf(preHeap) (+) SetToBag({arg[1]})
    /\ (op = "dequeue" /\ ~isEmpty(preHeap)) =>
           /\ RootRemoved(preHeap, heap)
           /\ ret = At(preHeap, 0).value
    /\ (op = "drain.next" /\ preDrainGen = "suspended"
                          /\ ~isEmpty(preHeap)) =>
           /\ RootRemoved(preHeap, heap)
           /\ ~done
           /\ ret = At(preHeap, 0).value
    /\ op = "drainFast" => isEmpty(heap)
    /\ (\/ op \in ModeSetters \cup {"new", "drain", "iterator", "iterator.next"}
        \/ op \in GeneratorClosers
        \/ op = "dequeue" /\ isEmpty(preHeap)
        \/ op = "drain.next" /\ isEmpty(preHeap)
        \/ op = "drain.next" /\ preDrainGen = "closed") =>
           BagOf(heap) = BagOf(preHeap)
    /\ \A cmp \in CompareFns :
           /\ BagOf(reheapify(heap, cmp)) = BagOf(heap)
           /\ BagOf(bubbleDown(heap, 0, cmp)) = BagOf(heap)
           /\ BagOf(bubbleUp(heap, cmp)) = BagOf(heap)


\* the array of a new queue of the mode cmp into which the entries of the
\* sequence s have been enqueued one by one, from its i-th on into h
RECURSIVE EnqueueFrom(_, _, _, _)
EnqueueFrom(s, i, h, cmp) ==
    IF i > Len(s)
    THEN h
    ELSE EnqueueFrom(s, i + 1, enqueue(h, cmp, s[i].value, s[i].priority), cmp)

EnqueueAll(s, cmp) == EnqueueFrom(s, 1, constructor(<<>>).heap, cmp)

\* the priorities of a sequence of entries
mapPriority(s) == [i \in 1 .. Len(s) |-> s[i].priority]

(***************************************************************************)
(* C24.  Reheapify equivalence: after a mode switch that changes the mode, *)
(* dequeuing the queue to exhaustion gives the same sequence of priorities *)
(* as dequeuing to exhaustion a new queue of the new mode into which the   *)
(* same entries were enqueued one by one.                                  *)
(***************************************************************************)
C24_ReheapifyEquivalence ==
    (op \in ModeSetters /\ compare # preCompare) =>
        mapPriority(DequeueAll(heap, compare))
            = mapPriority(DequeueAll(EnqueueAll(preHeap, compare), compare))


\* the index of the parent of index i
Parent(i) == (i - 1) \div 2

\* index i and the indices above it on the way to the root
RECURSIVE Ancestors(_)
Ancestors(i) == IF i <= 0 THEN {0} ELSE {i} \cup Ancestors(Parent(i))

\* the array after is the array before with the entry e appended and sifted
\* up to index j: e is strictly better under cmp than every entry it has
\* passed, each of which is one level down, and nothing else has moved
SiftedUpTo(before, after, e, j, cmp) ==
    /\ Len(after) = Len(before) + 1
    /\ At(after, j) = e
    /\ \A k \in 0 .. Len(before) :
           IF k \in Ancestors(Len(before)) /\ k > j
           THEN /\ At(after, k) = At(before, Parent(k))
                /\ Compare(cmp, e, At(before, Parent(k))) < 0
                /\ NotAfter(cmp, e.priority, At(before, Parent(k)).priority)
                /\ e.priority # At(before, Parent(k)).priority
           ELSE k # j => At(after, k) = At(before, k)

(***************************************************************************)
(* C25.  Sift-up in enqueue: the new entry moves above a parent only if it *)
(* is strictly better than it under the active mode, never above a parent  *)
(* of equal priority; it ends at index 0 or below a parent that is not     *)
(* worse than it, and every ancestor it has passed is exactly one level    *)
(* further down.                                                           *)
(***************************************************************************)
C25_SiftUp ==
    op = "enqueue" =>
        \E j \in Ancestors(Len(preHeap)) :
            /\ SiftedUpTo(preHeap, heap, arg[1], j, compare)
            /\ \/ j = 0
               \/ /\ Compare(compare, arg[1], At(heap, Parent(j))) >= 0
                  /\ NotAfter(compare, At(heap, Parent(j)).priority,
                              arg[1].priority)

\* an entry enqueued at index 4 has moved one level up, above a parent
\* worse than it, and rests below a root of its own priority
C25_Witness ==
    /\ op = "enqueue"
    /\ Len(preHeap) = 4
    /\ At(heap, 1) = arg[1]
    /\ At(heap, 4) = At(preHeap, 1)
    /\ At(heap, 4).priority # arg[1].priority
    /\ At(heap, 0).priority = arg[1].priority


\* the sift-down of the claim C26: from index on, the entry e moves below the
\* better of the existing children (the left one on a tie) as long as that
\* child is strictly better than e under the mode cmp
RECURSIVE SiftDown(_, _, _, _)
SiftDown(h, index, e, cmp) ==
    LET left == 2 * index + 1
        right == 2 * index + 2
        child == IF right < Len(h)
                       /\ Compare(cmp, At(h, right), At(h, left)) < 0
                 THEN right
                 ELSE left
    IN  IF left < Len(h) /\ Compare(cmp, At(h, child), e) < 0
        THEN SiftDown(Put(h, index, At(h, child)), child, e, cmp)
        ELSE Put(h, index, e)

(***************************************************************************)
(* C26.  Sift-down moves the entry only below a child that is strictly     *)
(* better than it; the child moved up at each step is the better of the    *)
(* existing children under the active mode, the left one on a tie; and it  *)
(* stops when neither child is strictly better than the entry or there is  *)
(* no child.  Stated on dequeue, which sifts the last entry down from the  *)
(* root.                                                                   *)
(***************************************************************************)
C26_SiftDown ==
    (op = "dequeue" /\ Len(preHeap) >= 2) =>
        LET last == At(preHeap, Len(preHeap) - 1)
        IN  heap = SiftDown(Put(Pop(preHeap), 0, last), 0, last, compare)


\* floor(log2(n)), for n >= 1
RECURSIVE Log2(_)
Log2(n) == IF n <= 1 THEN 0 ELSE 1 + Log2(n \div 2)

(***************************************************************************)
(* C27.  Every operation terminates: a sift-up or a sift-down on a heap of *)
(* n entries moves the entry by floor(log2(n)) levels at most; a mode      *)
(* switch makes one sift-down for each index from floor(n/2) - 1 down to   *)
(* 0; and a drain() generator consumed to its end with nothing enqueued in *)
(* between has yielded exactly n values.                                   *)
(***************************************************************************)
C27_Termination ==
    /\ op = "enqueue" =>
           bubbleUpMoves(Append(preHeap, arg[1]), Len(preHeap), arg[1],
                         compare) <= Log2(Len(heap))
    /\ \A cmp \in CompareFns : \A i \in 0 .. Len(heap) - 1 :
           bubbleDownMoves(heap, i, cmp) <= Log2(Len(heap))
    /\ reheapifyCalls(heap)
           = [k \in 1 .. Len(heap) \div 2 |-> (Len(heap) \div 2) - k]
    /\ DrainedToEnd =>
           Len(drainOut) = Len(drainSnap)


(***************************************************************************)
(* C28.  Only setMinHeap() and setMaxHeap() change the comparison mode:    *)
(* after enqueue, dequeue, peek, isEmpty, size, drainFast, the making of a *)
(* generator by drain() or [Symbol.iterator]() and every next(), return()  *)
(* and throw() on one, #compare is what it was when the operation was      *)
(* called, also when the operation has emptied the queue.                  *)
(***************************************************************************)
C28_ModeFrame ==
    op \notin ModeSetters \cup {"new"} => compare = preCompare

\* a dequeue has taken the last entry of a max-first queue
C28_Witness ==
    /\ op = "dequeue"
    /\ ~isEmpty(preHeap)
    /\ isEmpty(heap)
    /\ compare = "maxCompare"


\* the entries whose values next() calls yield until the loop of drain() or
\* of the iterator ends, on a queue of array h and comparison function cmp
RECURSIVE YieldAll(_, _)
YieldAll(h, cmp) ==
    LET r == yieldLoop(h, cmp, <<>>)
    IN  IF r.done
        THEN <<>>
        ELSE <<r.removed[Len(r.removed)]>> \o YieldAll(r.heap, cmp)

(***************************************************************************)
(* C29.  The iterator takes its copy of the entries and of the mode at its *)
(* first next(), not when it is made.  What it has yielded after the first *)
(* next(), followed by what it has yet to yield, is what the queue as it   *)
(* is at that call would yield: every enqueue, dequeue and mode switch     *)
(* made since the generator was obtained is in it.  After a later next()   *)
(* it is the same sequence as before that call, and an enqueue, a dequeue  *)
(* or a mode switch on the queue changes neither the copy nor what has     *)
(* been yielded.                                                           *)
(***************************************************************************)
C29_SnapshotAtFirstPull ==
    [][/\ (op' = "iterator.next" /\ iterGen \notin {"none", "closed"}) =>
              iterOut' \o YieldAll(clone', cloneCompare')
                  = IF iterOut = <<>>
                    THEN YieldAll(heap, compare)
                    ELSE iterOut \o YieldAll(clone, cloneCompare)
       /\ op' \notin {"iterator", "iterator.next"} =>
              UNCHANGED <<clone, cloneCompare, iterOut>>]_vars

\* an iteration, made on the empty queue, that has ended after two entries
\* of different priorities, those the queue held at the first next(); the
\* queue and its mode were changed again after that call
C29_Witness ==
    /\ iterGen = "closed"
    /\ Len(iterOut) >= 2
    /\ iterOut[1].priority # iterOut[2].priority
    /\ BagOf(iterOut) = BagOf(iterSnap)
    /\ heap # iterSnap
    /\ compare # cloneCompare


(***************************************************************************)
(* C30.  A drain() generator that has not reported completion reads the    *)
(* queue as it is at each next(): on a non-empty queue the call returns    *)
(* the value of the root of #heap as it is at the call, under the mode of  *)
(* that moment, with done false, and takes that entry and no other out; it *)
(* reports completion only when it finds #heap empty.  So an enqueue, a    *)
(* dequeue or a mode switch made between two calls shows in the next one.  *)
(***************************************************************************)
C30_LiveDrain ==
    (op = "drain.next" /\ preDrainGen = "suspended") =>
        IF isEmpty(preHeap)
        THEN /\ done
             /\ ret = UNDEFINED
             /\ heap = preHeap
        ELSE /\ ~done
             /\ ret = peek(preHeap)
             /\ heap = dequeue(preHeap, preCompare).heap


\* the number of entries of s whose value is not undefined
CountDefined(s) == Cardinality({i \in DOMAIN s : s[i].value # UNDEFINED})

(***************************************************************************)
(* C31.  drain() and the iterator never yield undefined.  A next() of      *)
(* drain() takes out of #heap, and a next() of the iterator out of its     *)
(* copy, every entry it passes, and yields the value of the one entry      *)
(* among them whose value is not undefined, if there is one: the entries   *)
(* whose value is undefined are removed and not yielded.  drainFast()      *)
(* returns the value of every entry, undefined too, and dequeue() returns  *)
(* undefined for an entry whose value is undefined, which it removes, as   *)
(* it does for an empty queue.                                             *)
(***************************************************************************)
C31_UndefinedSkipped ==
    /\ (op \in {"drain.next", "iterator.next"} /\ ~done) => ret # UNDEFINED
    /\ (op = "drain.next" /\ preDrainGen = "suspended") =>
           /\ BagOf(heap) \sqsubseteq BagOf(preHeap)
           /\ CountDefined(preHeap) - CountDefined(heap)
                  = IF done THEN 0 ELSE 1
           /\ done => isEmpty(heap)
    /\ iterGen \in {"running", "closed"} =>
           /\ \A i \in DOMAIN iterOut : iterOut[i].value # UNDEFINED
           /\ BagOf(clone \o iterOut) \sqsubseteq BagOf(iterSnap)
           /\ CountDefined(clone) + Len(iterOut) = CountDefined(iterSnap)
    /\ LET r == iteratorNext(heap, compare, "start", <<>>, compare)
       IN  /\ r.done => isEmpty(r.clone)
           /\ CountDefined(heap) - CountDefined(r.clone)
                  = IF r.done THEN 0 ELSE 1
    /\ op = "drainFast" =>
           /\ Len(ret) = Len(preHeap)
           /\ BagOf(ret) = BagOf(mapValue(preHeap))
    /\ op = "dequeue" =>
           /\ isEmpty(preHeap) => (ret = UNDEFINED /\ heap = preHeap)
           /\ (~isEmpty(preHeap) /\ At(preHeap, 0).value = UNDEFINED) =>
                  (ret = UNDEFINED /\ RootRemoved(preHeap, heap))

\* a next() of drain() that has yielded one value and removed two entries
C31_Witness ==
    /\ op = "drain.next"
    /\ preDrainGen = "suspended"
    /\ ~done
    /\ Len(preHeap) - Len(heap) = 2


\* the position of the value v in the sequence of values s
PositionOf(s, v) == CHOOSE k \in DOMAIN s : s[k] = v

(***************************************************************************)
(* C32.  drainFast() returns the values of entries of equal priority in    *)
(* the order of their positions in #heap at the call: of two entries of    *)
(* one priority, the value of the one at the lower index comes first.      *)
(* (That this order differs from the order of drain() on some reachable    *)
(* heap is the state of C32_Witness.)                                      *)
(***************************************************************************)
C32_StableTies ==
    op = "drainFast" =>
        /\ Len(ret) = Len(preHeap)
        /\ \A i, j \in DOMAIN preHeap :
               (i < j /\ preHeap[i].priority = preHeap[j].priority) =>
                   PositionOf(ret, preHeap[i].value)
                       < PositionOf(ret, preHeap[j].value)

\* drainFast() on a heap that drain() would have yielded in another order,
\* with the same priority at every position: the two differ in the order
\* of entries of equal priority only
C32_Witness ==
    /\ op = "drainFast"
    /\ mapPriority(YieldAll(preHeap, preCompare))
           = mapPriority(sort(preHeap, preCompare))
    /\ mapValue(YieldAll(preHeap, preCompare)) # ret


=============================================================================
